---- MODULE Spec2Model ----
(***************************************************************************)
(* State-machine model of the polling bots of auto_trade_Boot:            *)
(*   "paper"  - alpaca/buckup/2paper.py                                   *)
(*   "lion"   - alpaca/buckup/2lioneheart.py                              *)
(*   "alpaca" - alpaca/buckup/1alpaca_bot.py                              *)
(*   "ques5"  - questrade/5ques_trade.py                                  *)
(*   "Lioneheart1", "Lioneheart3" - alpaca/buckup/Lioneheart1.py, ...3.py *)
(* Money is counted in units of 1/10000 USD, quantities in units of       *)
(* 1/10000 of an asset, prices in whole USD.                              *)
(***************************************************************************)
EXTENDS Integers, Sequences, FiniteSets, TLC

VARIABLES
    bot,        \* which script runs
    pc,         \* position of the process in main()
    file,       \* "positions" object of the JSON state file
    state,      \* evaluate_and_trade's local state["positions"]
    mainState,  \* 2paper main()'s local state["positions"]
    positions,  \* 1alpaca_bot's module-level positions dict
    cash,       \* the cash figure the running cycle works with
    idx,        \* index into ASSETS of the next loop iteration
    todo,       \* 1alpaca_bot: list(positions.items()) still to visit
    broker,     \* symbols the broker holds for the account
    last,       \* what the last step decided and submitted
    cycle,      \* what the running polling cycle has done so far
    hist,       \* what has happened since the first start
    call,       \* a function under evaluation on its own: input and result
    total_profit \* 5ques_trade run_bot's total_profit (USD)

vars == <<bot, pc, file, state, mainState, positions, cash, idx, todo,
          broker, last, cycle, hist, call, total_profit>>

-----------------------------------------------------------------------------
(* Bounds of the model *)

\* highest closing price (USD) of a bar; prices move in the band just below
MaxPrice == 3
\* bars beyond the long window that a fetched history may have
MaxExtraBars == 1
\* highest surplus (USD) of the account's cash over one allocation
MaxCash == 20

\* the price (USD) around which 1alpaca_bot's latest trades move
PriceBase == 100
\* the quote (1/10000 USD) around which the inputs of order sizing are drawn
MidQuote == 33333
\* a latest trade price (USD) beyond 20000 times 1alpaca_bot's allocation
HighPrice == 210000
\* nested calls of send_request the interpreter allows before RecursionError
\* (sys.getrecursionlimit() is 1000 frames by default)
RecursionLimit == 3

PriceLevels == (MaxPrice - 1)..MaxPrice

-----------------------------------------------------------------------------
(* Program constants *)

Bots == {"paper", "lion", "alpaca", "ques5", "Lioneheart1", "Lioneheart3"}
\* the symbols of all asset lists
Symbols == {"DOGE/USD", "BCH/USD", "USDT/USD", "AAPL", "AMZN", "GOOGL",
            "TSLA", "MSFT"}

ASSETS_2paper == <<"DOGE/USD", "BCH/USD", "USDT/USD">>
ASSETS_2lioneheart == <<"AAPL", "AMZN", "GOOGL">>
ASSETS_1alpaca == <<"DOGE/USD", "BCH/USD", "USDT/USD">>

ASSETS(b) ==
    IF b = "paper" THEN ASSETS_2paper
    ELSE IF b = "lion" THEN ASSETS_2lioneheart
    ELSE ASSETS_1alpaca

TARGET_ALLOCATION_2paper == 20
TARGET_ALLOCATION_2lioneheart == 300
ALLOCATION == 10
TAKE_PROFIT_PERCENT == 10
STOP_LOSS_PERCENT == 5
\* seconds between cycles: 2paper, 2lioneheart and 1alpaca_bot
CHECK_INTERVAL == 300
\* 2lioneheart: seconds to wait while the market is closed
MARKET_WAIT == 60
\* 5ques_trade: "sleep(3600)" at the end of a cycle
CYCLE_SLEEP_5ques == 3600
ShortWindow == 10
LongWindow == 50
\* units per USD (4 decimal places)
Scale == 10000

None == [num |-> -1, den |-> 0]

\* account cash balances (USD) get_account() reports: short of one
\* allocation (2paper), one allocation, and more
CashLevels(b) ==
    IF b = "paper"
    THEN {TARGET_ALLOCATION_2paper \div 2, TARGET_ALLOCATION_2paper,
          TARGET_ALLOCATION_2paper + MaxCash}
    ELSE {TARGET_ALLOCATION_2lioneheart,
          TARGET_ALLOCATION_2lioneheart + MaxCash}

-----------------------------------------------------------------------------
(* Pure helpers *)

RECURSIVE SumFrom(_, _)
\* s[i] + ... + s[Len(s)]
SumFrom(s, i) == IF i > Len(s) THEN 0 ELSE s[i] + SumFrom(s, i + 1)

\* Python sum() over a list
SumSeq(s) == SumFrom(s, 1)

\* Python slice s[-n:]
LastN(s, n) ==
    IF Len(s) <= n THEN s ELSE SubSeq(s, Len(s) - n + 1, Len(s))

\* calculate_sma with the length test off by one ("<=" for "<")
calculate_sma_OffByOne(prices, window) ==
    IF Len(prices) <= window THEN None
    ELSE [num |-> SumSeq(LastN(prices, window)), den |-> window]

\* 2paper calculate_sma(prices, window); the mean is kept as sum / window
calculate_sma(prices, window) ==
    IF Len(prices) < window THEN None
    ELSE [num |-> SumSeq(LastN(prices, window)), den |-> window]

\* 2lioneheart: sum(prices[-w:]) / w if len(prices) >= w else None
InlineSma(prices, window) ==
    IF Len(prices) >= window
    THEN [num |-> SumSeq(LastN(prices, window)), den |-> window]
    ELSE None

Sma(b, prices, window) ==
    IF b = "paper" THEN calculate_sma(prices, window)
    ELSE InlineSma(prices, window)

\* Python truthiness of an SMA: None and 0.0 are false
Truthy(x) == x # None /\ x.num # 0

\* x > y for two defined means
Greater(x, y) == x.num * y.den > y.num * x.den

\* n / d rounded to the nearest integer, ties to even
RoundDiv(n, d) ==
    LET q == n \div d
        r == n % d
    IN  IF 2 * r > d THEN q + 1
        ELSE IF 2 * r < d THEN q
        ELSE IF q % 2 = 0 THEN q ELSE q + 1

\* round(num / den, 4) cutting the digits after the fourth instead of rounding
Round4_Truncating(num, den) == (num * Scale) \div den

\* round(num / den, 4) in units of 1/10000
Round4(num, den) == RoundDiv(num * Scale, den)

\* dict without key k
Pop(m, k) == [s \in DOMAIN m \ {k} |-> m[s]]
\* dict with m[k] = v
Put(m, k, v) == [s \in DOMAIN m \cup {k} |-> IF s = k THEN v ELSE m[s]]

EmptyDict == [s \in {} |-> 0]

\* n copies of x
Rep(x, n) == [i \in 1..n |-> x]

\* price histories a fetch can return: a bars of one level, then b of another
PriceLists ==
    { Rep(p, n) \o Rep(q, m) :
        p \in PriceLevels, q \in PriceLevels,
        n \in {0} \cup
              ((LongWindow - ShortWindow)..(LongWindow - ShortWindow + MaxExtraBars)),
        m \in {0, ShortWindow - 1, ShortWindow} }

\* the two averages of every history a fetch can return
Averages ==
    [b \in {"paper", "lion"} |->
        [p \in PriceLists |-> [short |-> Sma(b, p, ShortWindow),
                               long |-> Sma(b, p, LongWindow)]]]

-----------------------------------------------------------------------------
(* Decisions of evaluate_and_trade *)

\* "if not short_sma or not long_sma: continue"
SmaMissing(short, long) == ~Truthy(short) \/ ~Truthy(long)

\* 2paper "if cash < TARGET_ALLOCATION: continue"; 2lioneheart has no such gate
CashGate(b, c) == b = "paper" /\ c < TARGET_ALLOCATION_2paper * Scale

\* the buy condition without its test of the position set
BuyCondition_NoPositionTest(short, long, pos, asset) == Greater(short, long)

\* "if short_sma > long_sma and asset not in state.get('positions', {})"
BuyCondition(short, long, pos, asset) ==
    Greater(short, long) /\ asset \notin DOMAIN pos

\* the sell condition with "<=" for "<"
SellCondition_OnEquality(short, long, pos, asset) ==
    ~Greater(short, long) /\ asset \in DOMAIN pos

\* "elif short_sma < long_sma and asset in state.get('positions', {})"
SellCondition(short, long, pos, asset) ==
    Greater(long, short) /\ asset \in DOMAIN pos

\* quantity of a buy order, as a quotient in units of 1/10000
BuyQty(b, c, price) ==
    IF b = "paper"
    THEN [num |-> IF c < TARGET_ALLOCATION_2paper * Scale
                  THEN Round4(c, price * Scale)
                  ELSE Round4(TARGET_ALLOCATION_2paper, price),
          den |-> 1]
    ELSE [num |-> c, den |-> price]

\* cash left after a buy: 2paper "cash -= qty * prices[-1]"
CashAfterBuy(b, c, qty, price) ==
    IF b = "paper" THEN c - qty.num * price ELSE c

\* how the two averages compare, for the record of the step
Relation(short, long) ==
    IF short = None \/ long = None THEN "undef"
    ELSE IF Greater(short, long) THEN "gt"
    ELSE IF Greater(long, short) THEN "lt"
    ELSE "eq"

-----------------------------------------------------------------------------
(* Records of what happened *)

\* the last step: the operation, the asset it was about, whether the fetched
\* history filled the long window, how the averages compared, whether the
\* asset was in the position set, the order submitted and its fate; for a
\* liquidation, the symbols tracked before it and those it sold; for a buy,
\* the quantity ordered and the price it was sized at; whether main()'s
\* "except Exception" caught an exception, the seconds of the sleep the step
\* ends in; for a cycle of 5ques_trade, whether the gate was open, the steps
\* it ran and the symbols it got to
NoStep == [op |-> "none", asset |-> "-", full |-> FALSE, rel |-> "undef",
           held |-> FALSE, dup |-> FALSE, order |-> "none",
           accepted |-> FALSE, price |-> 0, entry |-> 0,
           tracked |-> {}, sells |-> {},
           qty |-> [num |-> 0, den |-> 1], quote |-> 0,
           raised |-> FALSE, slept |-> 0, open |-> FALSE, ran |-> <<>>,
           evaluated |-> {}]

\* the running cycle: symbols whose buy / sell the broker accepted in it
NewCycle == [bought |-> {}, sold |-> {}]

NoFaults == [crashed |-> FALSE, saveFailed |-> FALSE]

\* no function is evaluated on its own
NoCall == [fn |-> "none"]

Init ==
    /\ bot \in Bots
    /\ pc = "start"
    /\ file = EmptyDict
    /\ state = EmptyDict
    /\ mainState = EmptyDict
    /\ positions = EmptyDict
    /\ cash = 0
    /\ idx = 1
    /\ todo = <<>>
    /\ broker = {}
    /\ last = NoStep
    /\ cycle = NewCycle
    /\ hist = NoFaults
    /\ total_profit = 0

\* seconds a bot sleeps between two successful cycles
Interval(b) == IF b = "ques5" THEN CYCLE_SLEEP_5ques ELSE CHECK_INTERVAL

\* an exception that the handler of the polling loop does not catch
OnException_NotCaught(b) == [pc |-> "failed", slept |-> 0]

\* "except Exception as e" of the polling loop: 2paper, 2lioneheart and
\* 1alpaca_bot log and sleep(CHECK_INTERVAL); 5ques_trade only logs
OnException(b) ==
    IF b = "ques5" THEN [pc |-> "loop", slept |-> 0]
    ELSE [pc |-> "sleep", slept |-> CHECK_INTERVAL]

-----------------------------------------------------------------------------
(* 2paper.py and 2lioneheart.py *)

SmaBot == bot \in {"paper", "lion"}

\* load_state(): the positions read from the state file
load_state == file

\* save_state(state): the file after the write, which may fail (logged only)
save_state(f, st, ok) == IF ok THEN st ELSE f

\* 2paper close_open_positions(state): a sell for every position of the
\* state it is given, then an empty state is written
close_open_positions(st, acc, saveOk) ==
    /\ broker' = broker \ acc
    /\ file' = save_state(file, EmptyDict, saveOk)
    /\ hist' = [hist EXCEPT !.saveFailed = @ \/ ~saveOk]
    /\ last' = [NoStep EXCEPT !.op = "close", !.tracked = DOMAIN file,
                              !.sells = DOMAIN st]

\* 2lioneheart close_all_positions(): a sell for every position the broker
\* lists; the state file is not touched
close_all_positions(listOk, acc) ==
    LET listed == IF listOk THEN broker ELSE {}
    IN  /\ broker' = broker \ (acc \cap listed)
        /\ file' = file
        /\ hist' = hist
        /\ last' = [NoStep EXCEPT !.op = "close", !.tracked = DOMAIN file,
                                  !.sells = listed]

\* main() up to the loop: 2paper loads the state and closes what it lists
MainStart ==
    /\ SmaBot
    /\ pc = "start"
    /\ pc' = "loop"
    /\ mainState' = EmptyDict
    /\ IF bot = "paper" /\ DOMAIN load_state # {}
       THEN \E acc \in SUBSET DOMAIN load_state, saveOk \in BOOLEAN :
                close_open_positions(load_state, acc, saveOk)
       ELSE /\ UNCHANGED <<broker, file, hist>>
            /\ last' = [NoStep EXCEPT !.op = "start"]
    /\ UNCHANGED <<bot, call, total_profit, state, positions, cash, idx, todo, cycle>>

\* 2lioneheart main(): "if not is_market_hours(): sleep(60); continue"
MarketClosed ==
    /\ bot = "lion"
    /\ pc = "loop"
    /\ last' = [NoStep EXCEPT !.op = "closed", !.slept = MARKET_WAIT]
    /\ UNCHANGED <<bot, call, total_profit, pc, file, state, mainState, positions, cash, idx,
                   todo, broker, cycle, hist>>

\* evaluate_and_trade() up to its loop: load_state() and get_account()
EvalBegin ==
    /\ SmaBot
    /\ pc = "loop"
    /\ state' = load_state
    /\ cycle' = NewCycle
    /\ idx' = 1
    /\ \/ \E c \in CashLevels(bot) :
            /\ cash' = c * Scale
            /\ pc' = "eval"
            /\ last' = [NoStep EXCEPT !.op = "begin"]
       \/ \* get_account() raises: 2paper's main() catches it; 2lioneheart's
          \* evaluate_and_trade catches it and returns, main() then sleeps
          /\ cash' = 0
          /\ IF bot = "paper"
             THEN /\ pc' = OnException(bot).pc
                  /\ last' = [NoStep EXCEPT !.op = "noaccount", !.open = TRUE,
                                            !.raised = TRUE,
                                            !.slept = OnException(bot).slept]
             ELSE /\ pc' = "sleep"
                  /\ last' = [NoStep EXCEPT !.op = "noaccount", !.open = TRUE,
                                            !.slept = CHECK_INTERVAL]
    /\ UNCHANGED <<bot, call, total_profit, file, mainState, positions, todo, broker, hist>>

\* the record of one pass through the body of "for asset in ASSETS"
Step(asset, prices, rel, order, accepted) ==
    [NoStep EXCEPT !.op = "eval", !.asset = asset,
                   !.full = Len(prices) >= LongWindow, !.rel = rel,
                   !.held = asset \in DOMAIN state,
                   !.dup = order = "buy" /\ asset \in broker,
                   !.order = order, !.accepted = accepted,
                   !.qty = IF order = "buy"
                           THEN BuyQty(bot, cash, prices[Len(prices)])
                           ELSE NoStep.qty,
                   !.quote = IF order = "buy" THEN prices[Len(prices)] ELSE 0]

\* no order for the asset: on to the next one
Hold(asset, prices, rel) ==
    /\ last' = Step(asset, prices, rel, "none", FALSE)
    /\ pc' = "eval"
    /\ idx' = idx + 1
    /\ UNCHANGED <<file, state, cash, broker, cycle, hist>>

\* the buy branch: submit_order, then the position is recorded and saved
Buy(asset, prices, rel) ==
    LET price == prices[Len(prices)]
        qty == BuyQty(bot, cash, price)
        st == Put(state, asset, [qty |-> qty, entry_price |-> price])
    IN  \/ \* submit_order raised: "Failed to buy"
           /\ last' = Step(asset, prices, rel, "buy", FALSE)
           /\ pc' = "eval"
           /\ idx' = idx + 1
           /\ UNCHANGED <<file, state, cash, broker, cycle, hist>>
        \/ \E saveOk \in BOOLEAN :
           /\ last' = Step(asset, prices, rel, "buy", TRUE)
           /\ broker' = broker \cup {asset}
           /\ state' = st
           /\ file' = save_state(file, st, saveOk)
           /\ cash' = CashAfterBuy(bot, cash, qty, price)
           /\ cycle' = [cycle EXCEPT !.bought = @ \cup {asset}]
           /\ hist' = [hist EXCEPT !.saveFailed = @ \/ ~saveOk]
           /\ pc' = "eval"
           /\ idx' = idx + 1
        \/ \* the process dies between submit_order and save_state
           /\ last' = Step(asset, prices, rel, "buy", TRUE)
           /\ broker' = broker \cup {asset}
           /\ hist' = [hist EXCEPT !.crashed = TRUE]
           /\ pc' = "crashed"
           /\ state' = EmptyDict
           /\ cash' = 0
           /\ idx' = 1
           /\ cycle' = NewCycle
           /\ file' = file

\* the sell branch: the position is popped, then submit_order, then saved
Sell(asset, prices, rel) ==
    LET st == Pop(state, asset)
    IN  /\ state' = st
        /\ pc' = "eval"
        /\ idx' = idx + 1
        /\ cash' = cash
        /\ \/ \* submit_order raised: "Failed to sell"
              /\ last' = Step(asset, prices, rel, "sell", FALSE)
              /\ UNCHANGED <<broker, file, cycle, hist>>
           \/ \E saveOk \in BOOLEAN :
              /\ last' = Step(asset, prices, rel, "sell", TRUE)
              /\ broker' = broker \ {asset}
              /\ file' = save_state(file, st, saveOk)
              /\ cycle' = [cycle EXCEPT !.sold = @ \cup {asset}]
              /\ hist' = [hist EXCEPT !.saveFailed = @ \/ ~saveOk]

\* one pass through the body of "for asset in ASSETS"
EvaluateAsset ==
    /\ SmaBot
    /\ pc = "eval"
    /\ idx <= Len(ASSETS(bot))
    /\ \E prices \in PriceLists :
        LET asset == ASSETS(bot)[idx]
            short_sma == Averages[bot][prices].short
            long_sma == Averages[bot][prices].long
            rel == Relation(short_sma, long_sma)
        IN  IF prices = <<>> THEN Hold(asset, prices, "nodata")
            ELSE IF SmaMissing(short_sma, long_sma) THEN Hold(asset, prices, rel)
            ELSE IF CashGate(bot, cash) THEN Hold(asset, prices, rel)
            ELSE IF BuyCondition(short_sma, long_sma, state, asset)
                 THEN Buy(asset, prices, rel)
            ELSE IF SellCondition(short_sma, long_sma, state, asset)
                 THEN Sell(asset, prices, rel)
            ELSE Hold(asset, prices, rel)
    /\ UNCHANGED <<bot, call, total_profit, mainState, positions, todo>>

\* evaluate_and_trade() after its loop: 2paper writes the state once more
EvalEnd ==
    /\ SmaBot
    /\ pc = "eval"
    /\ idx > Len(ASSETS(bot))
    /\ pc' = "sleep"
    /\ IF bot = "paper"
       THEN \E saveOk \in BOOLEAN :
             /\ file' = save_state(file, state, saveOk)
             /\ hist' = [hist EXCEPT !.saveFailed = @ \/ ~saveOk]
       ELSE UNCHANGED <<file, hist>>
    /\ last' = [NoStep EXCEPT !.op = "return", !.open = TRUE,
                              !.slept = CHECK_INTERVAL]
    /\ UNCHANGED <<bot, call, total_profit, state, mainState, positions, cash, idx, todo, broker,
                   cycle>>

\* sleep(CHECK_INTERVAL) ends
Sleep ==
    /\ SmaBot
    /\ pc = "sleep"
    /\ pc' = "loop"
    /\ last' = [NoStep EXCEPT !.op = "wake"]
    /\ UNCHANGED <<bot, call, total_profit, file, state, mainState, positions, cash, idx, todo,
                   broker, cycle, hist>>

\* "except KeyboardInterrupt" of main(), reached from anywhere in the loop;
\* the process then ends and its memory is gone
KeyboardInterrupt ==
    /\ SmaBot
    /\ pc \in {"loop", "eval", "sleep"}
    /\ pc' = "stopped"
    /\ IF bot = "paper"
       THEN \E acc \in SUBSET DOMAIN mainState, saveOk \in BOOLEAN :
                close_open_positions(mainState, acc, saveOk)
       ELSE \E listOk \in BOOLEAN, acc \in SUBSET broker :
                close_all_positions(listOk, acc)
    /\ state' = EmptyDict
    /\ mainState' = EmptyDict
    /\ cash' = 0
    /\ idx' = 1
    /\ cycle' = NewCycle
    /\ UNCHANGED <<bot, call, total_profit, positions, todo>>

\* the script is started again after it stopped or died
Restart ==
    /\ pc \in {"stopped", "crashed", "failed", "done"}
    /\ pc' = "start"
    /\ last' = NoStep
    /\ UNCHANGED <<bot, call, total_profit, file, state, mainState, positions, cash, idx, todo,
                   broker, cycle, hist>>

-----------------------------------------------------------------------------
(* 1alpaca_bot.py *)

\* get_crypto_price(): the latest trade's price, or None (0 stands for it,
\* and is as false as None in "if not price")
NoPrice == 0
LatestPrices == {PriceBase - 6, PriceBase - 5, PriceBase, PriceBase + 5,
                 PriceBase + 10, PriceBase + 11, HighPrice}
get_crypto_price == LatestPrices \cup {NoPrice}

\* "profit_loss_percent = ((current_price - entry_price) / entry_price) * 100"
profit_loss_percent(current_price, entry_price) ==
    [num |-> (current_price - entry_price) * 100, den |-> entry_price]

\* the take-profit test with ">" for ">="
TakeProfit_Strict(pl) == pl.num > TAKE_PROFIT_PERCENT * pl.den

\* "if profit_loss_percent >= TAKE_PROFIT_PERCENT"
TakeProfit(pl) == pl.num >= TAKE_PROFIT_PERCENT * pl.den

\* "elif profit_loss_percent <= -STOP_LOSS_PERCENT"
StopLoss(pl) == pl.num <= (0 - STOP_LOSS_PERCENT) * pl.den

\* place_order(symbol, allocation, side): the order it submits, if any;
\* allocation is in units of 1/10000 USD, price is what it fetches itself
place_order(allocation, side, price, submitOk) ==
    IF price = NoPrice
    THEN [order |-> "skipped", accepted |-> FALSE, qty |-> 0]
    ELSE [order |-> side, accepted |-> submitOk,
          qty |-> RoundDiv(allocation, price)]

\* main() up to the loop
AlpacaStart ==
    /\ bot = "alpaca"
    /\ pc = "start"
    /\ pc' = "loop"
    /\ last' = [NoStep EXCEPT !.op = "start"]
    /\ UNCHANGED <<bot, call, total_profit, file, state, mainState, positions, cash, idx, todo,
                   broker, cycle, hist>>

\* check_take_profit_and_stop_loss() up to its loop: list(positions.items()),
\* visited here in the order of ASSETS
CheckBegin ==
    /\ bot = "alpaca"
    /\ pc = "loop"
    /\ todo' = SelectSeq(ASSETS(bot), LAMBDA a : a \in DOMAIN positions)
    /\ pc' = IF todo' = <<>> THEN "buy" ELSE "check"
    /\ idx' = 1
    /\ cycle' = NewCycle
    /\ last' = [NoStep EXCEPT !.op = "begin"]
    /\ UNCHANGED <<bot, call, total_profit, file, state, mainState, positions, cash, broker, hist>>

\* the sell of a triggered position: place_order(), then "del positions[symbol]"
ForcedSell(symbol, data, current_price, step) ==
    \E price \in get_crypto_price, submitOk \in BOOLEAN :
        LET sell == place_order(data.qty.num * current_price, "sell", price,
                                submitOk)
        IN  /\ last' = [step EXCEPT !.order = sell.order,
                                    !.accepted = sell.accepted]
            /\ positions' = Pop(positions, symbol)
            /\ cycle' = IF sell.accepted
                        THEN [cycle EXCEPT !.sold = @ \cup {symbol}]
                        ELSE cycle

\* one pass through the body of the loop of check_take_profit_and_stop_loss()
CheckPosition ==
    /\ bot = "alpaca"
    /\ pc = "check"
    /\ todo # <<>>
    /\ \E current_price \in get_crypto_price :
        LET symbol == Head(todo)
            data == positions[symbol]
            pl == profit_loss_percent(current_price, data.entry_price)
            step == [NoStep EXCEPT !.op = "tp", !.asset = symbol,
                                   !.held = TRUE, !.price = current_price,
                                   !.entry = data.entry_price]
        IN  IF current_price = NoPrice
            THEN /\ last' = [step EXCEPT !.rel = "noprice"]
                 /\ UNCHANGED <<positions, cycle>>
            ELSE IF TakeProfit(pl)
            THEN ForcedSell(symbol, data, current_price,
                            [step EXCEPT !.rel = "tp"])
            ELSE IF StopLoss(pl)
            THEN ForcedSell(symbol, data, current_price,
                            [step EXCEPT !.rel = "sl"])
            ELSE /\ last' = [step EXCEPT !.rel = "keep"]
                 /\ UNCHANGED <<positions, cycle>>
    /\ todo' = Tail(todo)
    /\ pc' = IF todo' = <<>> THEN "buy" ELSE "check"
    /\ UNCHANGED <<bot, call, total_profit, file, state, mainState, cash, idx, broker, hist>>

\* one pass through the body of "for asset in ASSETS" of main()
EvaluateNewTrade ==
    /\ bot = "alpaca"
    /\ pc = "buy"
    /\ idx <= Len(ASSETS(bot))
    /\ LET asset == ASSETS(bot)[idx]
           step == [NoStep EXCEPT !.op = "new", !.asset = asset,
                                  !.held = asset \in DOMAIN positions,
                                  !.slept = IF idx = Len(ASSETS(bot))
                                            THEN CHECK_INTERVAL ELSE 0]
       IN  IF asset \in DOMAIN positions
           THEN /\ last' = step
                /\ UNCHANGED <<positions, cycle>>
           ELSE \E price \in get_crypto_price :
                 IF price = NoPrice
                 THEN /\ last' = [step EXCEPT !.rel = "noprice"]
                      /\ UNCHANGED <<positions, cycle>>
                 ELSE \E price2 \in get_crypto_price, submitOk \in BOOLEAN :
                       LET qty == Round4(ALLOCATION, price)
                           buy == place_order(ALLOCATION * Scale, "buy",
                                              price2, submitOk)
                       IN  /\ positions' =
                                Put(positions, asset,
                                    [qty |-> [num |-> qty, den |-> 1],
                                     entry_price |-> price])
                           /\ last' = [step EXCEPT
                                          !.rel = "price", !.price = price,
                                          !.order = buy.order,
                                          !.accepted = buy.accepted,
                                          !.qty = [num |-> buy.qty, den |-> 1],
                                          !.quote = price2]
                           /\ cycle' = IF buy.accepted
                                       THEN [cycle EXCEPT
                                                !.bought = @ \cup {asset}]
                                       ELSE cycle
    /\ idx' = idx + 1
    /\ pc' = IF idx = Len(ASSETS(bot)) THEN "sleep" ELSE "buy"
    /\ UNCHANGED <<bot, call, total_profit, file, state, mainState, cash, todo, broker, hist>>

\* sleep(CHECK_INTERVAL) ends
AlpacaSleep ==
    /\ bot = "alpaca"
    /\ pc = "sleep"
    /\ pc' = "loop"
    /\ last' = [NoStep EXCEPT !.op = "wake"]
    /\ UNCHANGED <<bot, call, total_profit, file, state, mainState, positions, cash, idx, todo,
                   broker, cycle, hist>>

\* "except KeyboardInterrupt: break": the process ends, its memory is gone
AlpacaInterrupt ==
    /\ bot = "alpaca"
    /\ pc \in {"loop", "check", "buy", "sleep"}
    /\ pc' = "stopped"
    /\ positions' = EmptyDict
    /\ todo' = <<>>
    /\ idx' = 1
    /\ cycle' = NewCycle
    /\ last' = [NoStep EXCEPT !.op = "break"]
    /\ UNCHANGED <<bot, call, total_profit, file, state, mainState, cash, broker, hist>>

NextAlpaca ==
    \/ AlpacaStart
    \/ CheckBegin
    \/ CheckPosition
    \/ EvaluateNewTrade
    \/ AlpacaSleep
    \/ AlpacaInterrupt
    \/ Restart

InitAlpaca == Init /\ bot = "alpaca" /\ call = NoCall

SpecAlpaca == InitAlpaca /\ [][NextAlpaca]_vars

-----------------------------------------------------------------------------
(* questrade/5ques_trade.py: the two steps of a trading-hours cycle *)

TRADE_LIMITS ==
    [sym \in {"AAPL", "AMZN", "TSLA", "GOOGL", "MSFT"} |->
        IF sym = "AAPL" THEN [low |-> 150, high |-> 200]
        ELSE IF sym = "AMZN" THEN [low |-> 3000, high |-> 3500]
        ELSE IF sym = "TSLA" THEN [low |-> 600, high |-> 800]
        ELSE IF sym = "GOOGL" THEN [low |-> 2500, high |-> 3000]
        ELSE [low |-> 200, high |-> 300]]

\* TRADE_LIMITS.keys(), in the order of the dict
TRADE_LIMITS_keys == <<"AAPL", "AMZN", "TSLA", "GOOGL", "MSFT">>

TRADE_AMOUNT == 10
PROFIT_TARGET == 1000

\* the quote request of a symbol fails (send_request raises)
NoQuote == -1

\* what get_symbol_price(symbol) can give: a failure, or a last trade price
\* at or just beyond the symbol's limits
Quotes5(sym) ==
    {NoQuote, TRADE_LIMITS[sym].low, TRADE_LIMITS[sym].high,
     TRADE_LIMITS[sym].high + 1}

\* the quotes of all symbols during one step
QuoteMaps ==
    {q \in [DOMAIN TRADE_LIMITS ->
                UNION {Quotes5(sym) : sym \in DOMAIN TRADE_LIMITS}] :
        \A sym \in DOMAIN TRADE_LIMITS : q[sym] \in Quotes5(sym)}

\* what a step has done so far: the symbols it got to, the orders it
\* placed, and whether an exception left it
NoProgress == [evaluated |-> {}, bought |-> {}, closed |-> {}, raised |-> FALSE]

RECURSIVE rebalance_from(_, _, _, _, _)
\* "for symbol in TRADE_LIMITS.keys()" of rebalance_portfolio from key i on;
\* get_symbol_price and place_order let the exception of a failed request
\* through
rebalance_from(i, held, quote, postOk, acc) ==
    IF i > Len(TRADE_LIMITS_keys) THEN acc
    ELSE LET symbol == TRADE_LIMITS_keys[i]
             seen == [acc EXCEPT !.evaluated = @ \cup {symbol}]
         IN  IF symbol \in held
             THEN rebalance_from(i + 1, held, quote, postOk, seen)
             ELSE IF quote[symbol] = NoQuote
             THEN [acc EXCEPT !.raised = TRUE]
             ELSE IF /\ TRADE_LIMITS[symbol].low <= quote[symbol]
                     /\ quote[symbol] <= TRADE_LIMITS[symbol].high
             THEN IF postOk
                  THEN rebalance_from(i + 1, held, quote, postOk,
                                      [seen EXCEPT !.bought = @ \cup {symbol}])
                  ELSE [seen EXCEPT !.raised = TRUE]
             ELSE rebalance_from(i + 1, held, quote, postOk, seen)

\* rebalance_portfolio(account_id): get_positions, then the loop
rebalance_portfolio(positionsOk, held, quote, postOk) ==
    IF ~positionsOk THEN [NoProgress EXCEPT !.raised = TRUE]
    ELSE rebalance_from(1, held, quote, postOk, NoProgress)

RECURSIVE manage_from(_, _, _, _, _)
\* "for symbol, position in positions.items()" of manage_positions, over the
\* held symbols in the order todo
manage_from(todo5, held, quote, postOk, acc) ==
    IF todo5 = <<>> THEN acc
    ELSE LET symbol == Head(todo5)
             seen == [acc EXCEPT !.evaluated = @ \cup {symbol}]
         IN  IF quote[symbol] = NoQuote
             THEN [acc EXCEPT !.raised = TRUE]
             ELSE IF \/ quote[symbol] <= TRADE_LIMITS[symbol].low
                     \/ quote[symbol] >= TRADE_LIMITS[symbol].high
             THEN IF postOk
                  THEN manage_from(Tail(todo5), held, quote, postOk,
                                   [seen EXCEPT !.closed = @ \cup {symbol}])
                  ELSE [seen EXCEPT !.raised = TRUE]
             ELSE manage_from(Tail(todo5), held, quote, postOk, seen)

\* manage_positions(account_id): get_positions, then the loop
manage_positions(positionsOk, held, quote, postOk) ==
    IF ~positionsOk THEN [NoProgress EXCEPT !.raised = TRUE]
    ELSE manage_from(SelectSeq(TRADE_LIMITS_keys, LAMBDA a : a \in held),
                     held, quote, postOk, NoProgress)

-----------------------------------------------------------------------------
(* questrade/5ques_trade.py: run_bot *)

\* the functions and modules the module 5ques_trade defines or imports
Names_5ques ==
    {"os", "logging", "requests", "load_dotenv", "datetime", "sleep",
     "timezone", "refresh_access_token", "send_request", "is_trading_time",
     "get_positions", "get_symbol_price", "place_order", "close_position",
     "manage_positions", "rebalance_portfolio", "run_bot"}

\* what calculate_portfolio_profit(account_id) could return (USD)
ProfitLevels == {0, PROFIT_TARGET}

\* run_bot() up to the loop: the account request, which may fail
Ques5Start ==
    /\ bot = "ques5"
    /\ pc = "start"
    /\ total_profit' = 0
    /\ \/ /\ pc' = "loop"
          /\ last' = [NoStep EXCEPT !.op = "start"]
       \/ /\ pc' = "failed"
          /\ last' = [NoStep EXCEPT !.op = "start", !.raised = TRUE]
    /\ UNCHANGED <<bot, call, file, state, mainState, positions, cash, idx,
                   todo, broker, cycle, hist>>

\* the trading-hours branch once the profit has been added: the target
\* test, then manage_positions and rebalance_portfolio
Ques5Trade(total) ==
    IF total >= PROFIT_TARGET
    THEN /\ pc' = "done"
         /\ broker' = broker
         /\ last' = [NoStep EXCEPT !.op = "target", !.open = TRUE,
                                   !.ran = <<"calculate_portfolio_profit">>]
    ELSE \E positionsOk \in BOOLEAN, quote \in QuoteMaps, postOk \in BOOLEAN :
          LET held == broker \cap DOMAIN TRADE_LIMITS
              m == manage_positions(positionsOk, held, quote, postOk)
              r == rebalance_portfolio(positionsOk, held \ m.closed, quote,
                                       postOk)
              step == [NoStep EXCEPT !.op = "cycle", !.open = TRUE]
          IN  IF m.raised
              THEN /\ pc' = OnException(bot).pc
                   /\ broker' = broker \ m.closed
                   /\ last' = [step EXCEPT
                                  !.raised = TRUE,
                                  !.slept = OnException(bot).slept,
                                  !.ran = <<"calculate_portfolio_profit",
                                           "manage_positions">>]
              ELSE /\ pc' = IF r.raised THEN OnException(bot).pc ELSE "sleep"
                   /\ broker' = (broker \ m.closed) \cup r.bought
                   /\ last' = [step EXCEPT
                                  !.raised = r.raised,
                                  !.slept = IF r.raised
                                            THEN OnException(bot).slept
                                            ELSE CYCLE_SLEEP_5ques,
                                  !.ran = <<"calculate_portfolio_profit",
                                           "manage_positions",
                                           "rebalance_portfolio">>,
                                  !.evaluated = r.evaluated]

\* one pass through the body of "while True" of run_bot()
Ques5Cycle ==
    /\ bot = "ques5"
    /\ pc = "loop"
    /\ \E open \in BOOLEAN :
        IF ~open
        THEN \* "Market is closed. Waiting for next session."; sleep(3600)
             /\ pc' = "sleep"
             /\ last' = [NoStep EXCEPT !.op = "cycle",
                                       !.slept = CYCLE_SLEEP_5ques]
             /\ UNCHANGED <<total_profit, broker>>
        ELSE IF "calculate_portfolio_profit" \notin Names_5ques
        THEN \* NameError at "total_profit += calculate_portfolio_profit(...)"
             /\ pc' = OnException(bot).pc
             /\ last' = [NoStep EXCEPT !.op = "cycle", !.open = TRUE,
                                       !.raised = TRUE,
                                       !.slept = OnException(bot).slept]
             /\ UNCHANGED <<total_profit, broker>>
        ELSE \E profit \in ProfitLevels :
                /\ total_profit' = total_profit + profit
                /\ Ques5Trade(total_profit + profit)
    /\ UNCHANGED <<bot, call, file, state, mainState, positions, cash, idx,
                   todo, cycle, hist>>

\* sleep(3600) ends
Ques5Sleep ==
    /\ bot = "ques5"
    /\ pc = "sleep"
    /\ pc' = "loop"
    /\ last' = [NoStep EXCEPT !.op = "wake"]
    /\ UNCHANGED <<bot, call, total_profit, file, state, mainState, positions,
                   cash, idx, todo, broker, cycle, hist>>

\* "except KeyboardInterrupt: ... break"
Ques5Interrupt ==
    /\ bot = "ques5"
    /\ pc \in {"loop", "sleep"}
    /\ pc' = "stopped"
    /\ total_profit' = 0
    /\ last' = [NoStep EXCEPT !.op = "break"]
    /\ UNCHANGED <<bot, call, file, state, mainState, positions, cash, idx,
                   todo, broker, cycle, hist>>

NextQues5 ==
    \/ Ques5Start
    \/ Ques5Cycle
    \/ Ques5Sleep
    \/ Ques5Interrupt
    \/ Restart

-----------------------------------------------------------------------------
(* Lioneheart1.py and Lioneheart3.py *)

LhBot == bot \in {"Lioneheart1", "Lioneheart3"}

ASSETS_Lioneheart == <<"USDU", "USDTUSD", "LTCUSD">>
TARGET_ALLOCATION_PER_ASSET == 20

\* the symbols the broker may list as active and tradable
TradableSets == {{}, {"LTCUSD"}, {"USDU", "LTCUSD", "BB"}}

\* verify_tradable_assets(): Lioneheart1 first extends ASSETS by LTCUSD and
\* BB; a failed listing gives []
verify_tradable_assets(b, tradable) ==
    LET assets == IF b = "Lioneheart1"
                  THEN ASSETS_Lioneheart \o <<"LTCUSD", "BB">>
                  ELSE ASSETS_Lioneheart
    IN  SelectSeq(assets, LAMBDA a : a \in tradable)

\* a state file whose text was cut short: json.load raises on it
CutShort == [s \in {"{"} |-> [qty |-> [num |-> 0, den |-> 1], entry_price |-> 0]]

\* save_state(state): open(STATE_FILE, "w") and json.dump with no try; the
\* open may raise (the file is left as it was) and so may the write (the
\* file is left cut short)
save_state_Lioneheart(f, st, outcome) ==
    IF outcome = "written" THEN st
    ELSE IF outcome = "open raised" THEN f
    ELSE CutShort

\* balances (1/10000 USD) get_account() reports: short of one allocation,
\* one allocation, two
CashLevels_Lioneheart ==
    {(TARGET_ALLOCATION_PER_ASSET * Scale) \div 2,
     TARGET_ALLOCATION_PER_ASSET * Scale,
     2 * TARGET_ALLOCATION_PER_ASSET * Scale}

\* run_bot() up to the loop: verify_tradable_assets()
LhStart ==
    /\ LhBot
    /\ pc = "start"
    /\ \E tradable \in TradableSets :
            todo' = verify_tradable_assets(bot, tradable)
    /\ pc' = "loop"
    /\ last' = [NoStep EXCEPT !.op = "start"]
    /\ UNCHANGED <<bot, call, total_profit, file, state, mainState, positions,
                   cash, idx, broker, cycle, hist>>

\* allocate_funds() up to its loop: get_account() and load_state(); what
\* either raises is caught by the outer "except Exception"
LhBegin ==
    /\ LhBot
    /\ pc = "loop"
    /\ cycle' = NewCycle
    /\ idx' = 1
    /\ \/ \E c \in CashLevels_Lioneheart :
            IF file = CutShort
            THEN \* json.load raises JSONDecodeError
                 /\ pc' = "sleep"
                 /\ last' = [NoStep EXCEPT !.op = "nostate",
                                           !.slept = CHECK_INTERVAL]
                 /\ UNCHANGED <<cash, state>>
            ELSE /\ pc' = "eval"
                 /\ cash' = c
                 /\ state' = file
                 /\ last' = [NoStep EXCEPT !.op = "begin"]
       \/ \* get_account() raises
          /\ pc' = "sleep"
          /\ last' = [NoStep EXCEPT !.op = "noaccount",
                                    !.slept = CHECK_INTERVAL]
          /\ UNCHANGED <<cash, state>>
    /\ UNCHANGED <<bot, call, total_profit, file, mainState, positions, todo,
                   broker, hist>>

\* one pass through the body of "for asset in tradable_assets"
LhAllocate ==
    /\ LhBot
    /\ pc = "eval"
    /\ idx <= Len(todo)
    /\ LET asset == todo[idx]
           step == [NoStep EXCEPT !.op = "alloc", !.asset = asset,
                                  !.held = asset \in DOMAIN state,
                                  !.dup = asset \in broker]
       IN  IF asset \in DOMAIN state
           THEN \* "Already invested in ...": continue
                /\ last' = step
                /\ UNCHANGED <<file, state, cash, broker, cycle, hist>>
           ELSE \/ \* get_latest_trade raises
                   /\ last' = [step EXCEPT !.rel = "noprice"]
                   /\ UNCHANGED <<file, state, cash, broker, cycle, hist>>
                \/ \E latest_price \in PriceLevels :
                     LET qty == Round4(TARGET_ALLOCATION_PER_ASSET, latest_price)
                         buy == [step EXCEPT
                                    !.order = "buy", !.quote = latest_price,
                                    !.qty = [num |-> qty, den |-> 1]]
                     IN  IF cash >= TARGET_ALLOCATION_PER_ASSET * Scale
                         THEN \/ \* submit_order raises
                                 /\ last' = buy
                                 /\ UNCHANGED <<file, state, cash, broker,
                                                cycle, hist>>
                              \/ \E outcome \in {"written", "open raised",
                                                  "write raised"} :
                                  LET st == Put(state, asset,
                                                [qty |-> [num |-> qty, den |-> 1],
                                                 entry_price |-> latest_price])
                                  IN  /\ last' = [buy EXCEPT !.accepted = TRUE]
                                      /\ broker' = broker \cup {asset}
                                      /\ cash' = cash
                                            - TARGET_ALLOCATION_PER_ASSET * Scale
                                      /\ state' = st
                                      /\ file' = save_state_Lioneheart(
                                                    file, st, outcome)
                                      /\ cycle' = [cycle EXCEPT
                                                    !.bought = @ \cup {asset}]
                                      /\ hist' = [hist EXCEPT !.saveFailed =
                                                    @ \/ outcome # "written"]
                         ELSE \* "Insufficient cash to allocate ..."
                              /\ last' = [step EXCEPT !.rel = "nocash"]
                              /\ UNCHANGED <<file, state, cash, broker,
                                             cycle, hist>>
    /\ idx' = idx + 1
    /\ UNCHANGED <<bot, call, total_profit, pc, mainState, positions, todo>>

\* allocate_funds() returns; run_bot sleeps CHECK_INTERVAL
LhEnd ==
    /\ LhBot
    /\ pc = "eval"
    /\ idx > Len(todo)
    /\ pc' = "sleep"
    /\ last' = [NoStep EXCEPT !.op = "return", !.slept = CHECK_INTERVAL]
    /\ UNCHANGED <<bot, call, total_profit, file, state, mainState, positions,
                   cash, idx, todo, broker, cycle, hist>>

\* sleep(CHECK_INTERVAL) ends
LhSleep ==
    /\ LhBot
    /\ pc = "sleep"
    /\ pc' = "loop"
    /\ last' = [NoStep EXCEPT !.op = "wake"]
    /\ UNCHANGED <<bot, call, total_profit, file, state, mainState, positions,
                   cash, idx, todo, broker, cycle, hist>>

\* "except KeyboardInterrupt: ... break": the run of the process is over
LhInterrupt ==
    /\ LhBot
    /\ pc \in {"loop", "eval", "sleep"}
    /\ pc' = "ended"
    /\ last' = [NoStep EXCEPT !.op = "break"]
    /\ UNCHANGED <<bot, call, total_profit, file, state, mainState, positions,
                   cash, idx, todo, broker, cycle, hist>>

NextLioneheart ==
    \/ LhStart
    \/ LhBegin
    \/ LhAllocate
    \/ LhEnd
    \/ LhSleep
    \/ LhInterrupt

InitLioneheart == Init /\ LhBot /\ call = NoCall

\* one run of Lioneheart1.py or Lioneheart3.py
SpecLioneheart == InitLioneheart /\ [][NextLioneheart]_vars

-----------------------------------------------------------------------------
(* Specifications *)

NextSma ==
    \/ MainStart
    \/ MarketClosed
    \/ EvalBegin
    \/ EvaluateAsset
    \/ EvalEnd
    \/ Sleep
    \/ KeyboardInterrupt
    \/ Restart

InitSma == Init /\ SmaBot /\ call = NoCall

\* 2paper.py and 2lioneheart.py
SpecSma == InitSma /\ [][NextSma]_vars

NextPaper ==
    \/ MainStart
    \/ EvalBegin
    \/ EvaluateAsset
    \/ EvalEnd
    \/ Sleep
    \/ KeyboardInterrupt
    \/ Restart

InitPaper == Init /\ bot = "paper" /\ call = NoCall

\* 2paper.py alone
SpecPaper == InitPaper /\ [][NextPaper]_vars

Next == NextSma \/ NextAlpaca \/ NextQues5 \/ NextLioneheart

\* all the bots
InitAll == Init /\ call = NoCall

Spec == InitAll /\ [][Next]_vars

-----------------------------------------------------------------------------
(* The state file as text: json.dump and json.load *)

DigitChars == <<"0", "1", "2", "3", "4", "5", "6", "7", "8", "9">>

IsDigit(c) == \E d \in 1..10 : DigitChars[d] = c
Digit(c) == (CHOOSE d \in 1..10 : DigitChars[d] = c) - 1

RECURSIVE Pow10(_)
Pow10(k) == IF k = 0 THEN 1 ELSE 10 * Pow10(k - 1)

RECURSIVE IntDigits(_)
\* the decimal digits of a natural number
IntDigits(n) ==
    IF n < 10 THEN <<DigitChars[n + 1]>>
    ELSE IntDigits(n \div 10) \o <<DigitChars[(n % 10) + 1]>>

RECURSIVE FracDigits(_, _)
\* the digits of f / 10^w after the point: no trailing zero, at least one
FracDigits(f, w) ==
    LET unit == Pow10(w - 1)
        d == <<DigitChars[(f \div unit) + 1]>>
    IN  IF w = 1 \/ f % unit = 0 THEN d
        ELSE d \o FracDigits(f % unit, w - 1)

\* float.__repr__ of a value of at most 4 decimals, given in units of 1/10000
float_repr(n) ==
    IntDigits(n \div Scale) \o <<".">> \o FracDigits(n % Scale, 4)

RECURSIVE ParseInt(_)
ParseInt(ds) ==
    IF ds = <<>> THEN 0
    ELSE ParseInt(SubSeq(ds, 1, Len(ds) - 1)) * 10 + Digit(ds[Len(ds)])

\* the positions of token t in a line
Where(line, t) == {i \in 1..Len(line) : line[i] = t}

\* a JSON number: digits, a point, 1 to 4 digits
IsNumber(ts) ==
    /\ Cardinality(Where(ts, ".")) = 1
    /\ LET dot == CHOOSE i \in Where(ts, ".") : TRUE
       IN  /\ dot > 1 /\ dot < Len(ts) /\ Len(ts) - dot <= 4
           /\ \A i \in (1..Len(ts)) \ {dot} : IsDigit(ts[i])

\* float() of a JSON number, in units of 1/10000
float(ts) ==
    LET dot == CHOOSE i \in Where(ts, ".") : TRUE
        frac == SubSeq(ts, dot + 1, Len(ts))
    IN  ParseInt(SubSeq(ts, 1, dot - 1)) * Scale
            + ParseInt(frac) * Pow10(4 - Len(frac))

\* the line of one position: symbol, qty, entry price
EntryLine(sym, pos) ==
    <<sym>> \o float_repr(pos.qty) \o <<",">> \o float_repr(pos.entry_price)

RECURSIVE EntryLines(_, _, _)
\* the lines of the positions of m, in the order of the list syms from i on
EntryLines(m, syms, i) ==
    IF i > Len(syms) THEN <<>>
    ELSE (IF syms[i] \in DOMAIN m THEN <<EntryLine(syms[i], m[syms[i]])>>
          ELSE <<>>) \o EntryLines(m, syms, i + 1)

\* json.dump(state, f): the text of a position mapping, line by line
json_dump(m) == <<(<<"{">>)>> \o EntryLines(m, ASSETS_2paper, 1) \o <<(<<"}">>)>>

\* a line that json.load accepts as one position
IsEntryLine(line) ==
    /\ Len(line) >= 1
    /\ line[1] \in Symbols
    /\ Cardinality(Where(line, ",")) = 1
    /\ LET comma == CHOOSE i \in Where(line, ",") : TRUE
       IN  /\ comma > 2 /\ comma < Len(line)
           /\ IsNumber(SubSeq(line, 2, comma - 1))
           /\ IsNumber(SubSeq(line, comma + 1, Len(line)))

\* text that json.load parses: braces around position lines
IsJson(text) ==
    /\ Len(text) >= 2
    /\ text[1] = <<"{">>
    /\ text[Len(text)] = <<"}">>
    /\ \A i \in 2..(Len(text) - 1) : IsEntryLine(text[i])

\* json.load(f) of a text that parses: a repeated key keeps its last value
json_load(text) ==
    LET lines == 2..(Len(text) - 1)
        keys == {text[i][1] : i \in lines}
        lineOf(k) == text[CHOOSE i \in lines :
                            /\ text[i][1] = k
                            /\ \A j \in lines : text[j][1] = k => j <= i]
        comma(l) == CHOOSE i \in Where(l, ",") : TRUE
    IN  [k \in keys |->
            [qty |-> float(SubSeq(lineOf(k), 2, comma(lineOf(k)) - 1)),
             entry_price |-> float(SubSeq(lineOf(k), comma(lineOf(k)) + 1,
                                           Len(lineOf(k))))]]

\* the state file does not exist
Missing == <<(<<"ENOENT">>)>>
\* a file that open(STATE_FILE, "w") has emptied
Emptied == <<>>

\* what load_state() does with the file: the positions it returns, or the
\* exception it lets through
Loaded(m) == [raised |-> FALSE, positions |-> m]
JSONDecodeError == [raised |-> TRUE, positions |-> EmptyDict]

\* 2paper and 2lioneheart: FileNotFoundError and json.JSONDecodeError caught
load_state_2paper(content) ==
    IF content = Missing THEN Loaded(EmptyDict)
    ELSE IF ~IsJson(content) THEN Loaded(EmptyDict)
    ELSE Loaded(json_load(content))

\* Lioneheart1 and Lioneheart3: only FileNotFoundError caught
load_state_Lioneheart1(content) ==
    IF content = Missing THEN Loaded(EmptyDict)
    ELSE IF ~IsJson(content) THEN JSONDecodeError
    ELSE Loaded(json_load(content))

StateFileBots == {"paper", "lion", "Lioneheart1", "Lioneheart3"}

LoadState(impl, content) ==
    IF impl \in {"paper", "lion"} THEN load_state_2paper(content)
    ELSE load_state_Lioneheart1(content)

\* open(STATE_FILE, "w") that keeps what the file held beyond the new text
WriteText_NoTruncate(content, text) ==
    IF content = Missing \/ Len(content) <= Len(text) THEN text
    ELSE text \o SubSeq(content, Len(text) + 1, Len(content))

\* with open(STATE_FILE, "w") as f: json.dump(state, f)
WriteText(content, text) == text

\* the files save_state(state) can leave: the new text, or after a failure
\* the old file or an emptied one
SaveState(content, m) ==
    [ok : {TRUE}, content : {WriteText(content, json_dump(m))}]
        \cup [ok : {FALSE}, content : {content, Emptied}]

-----------------------------------------------------------------------------
(* alpaca/closing_assets.py, platform_test_liquidate.py and
   conversion_withdraw.py: the one-shot scripts *)

\* text the user types, as a sequence of characters
Whitespace == {" ", "\t", "\n"}
LowerCase == <<"c", "o", "n", "f", "i", "r", "m", "e", "d", "y", "s">>
UpperCase == <<"C", "O", "N", "F", "I", "R", "M", "E", "D", "Y", "S">>

RECURSIVE lstrip(_)
lstrip(t) ==
    IF t # <<>> /\ Head(t) \in Whitespace THEN lstrip(Tail(t)) ELSE t

RECURSIVE rstrip(_)
rstrip(t) ==
    IF t # <<>> /\ t[Len(t)] \in Whitespace
    THEN rstrip(SubSeq(t, 1, Len(t) - 1)) ELSE t

\* str.strip()
strip(t) == rstrip(lstrip(t))

\* str.upper()
upper(t) ==
    [i \in 1..Len(t) |->
        IF \E k \in DOMAIN LowerCase : LowerCase[k] = t[i]
        THEN UpperCase[CHOOSE k \in DOMAIN LowerCase : LowerCase[k] = t[i]]
        ELSE t[i]]

CONFIRM == <<"C", "O", "N", "F", "I", "R", "M">>

\* what input() can return
Typed ==
    {CONFIRM,
     <<"c", "o", "n", "f", "i", "r", "m">>,
     <<" ", "C", "o", "n", "f", "i", "r", "m", "\n">>,
     <<"C", "O", "N", "F", "I", "R", "M", "E", "D">>,
     <<"C", "O", "N", " ", "F", "I", "R", "M">>,
     <<"y", "e", "s">>,
     <<" ">>,
     <<>>}

\* "confirmation.strip().upper() == 'CONFIRM'"
confirmed(confirmation) == upper(strip(confirmation)) = CONFIRM

\* Python's None among values that are strings
PyNone == <<"None">>

\* the answers to GET /v2/positions/{symbol}: a status (0: the request
\* raised) and, with status 200, the JSON object of the body
PositionBodies ==
    {[k \in {"qty"} |-> <<"5">>], [k \in {"qty"} |-> <<"0">>],
     [k \in {"qty"} |-> <<>>], [k \in {"symbol"} |-> <<"U">>],
     [k \in {} |-> <<>>]}
FetchOutcomes ==
    {[status |-> 200, body |-> b] : b \in PositionBodies}
        \cup {[status |-> c, body |-> [k \in {} |-> <<>>]] : c \in {404, 500, 0}}

\* fetch_position(symbol): the body with status 200, None otherwise
fetch_position(answer) ==
    IF answer.status = 200 THEN [none |-> FALSE, dict |-> answer.body]
    ELSE [none |-> TRUE, dict |-> [k \in {} |-> <<>>]]

\* dict.get(key): None when the key is missing
get(dict, key) == IF key \in DOMAIN dict THEN dict[key] ELSE PyNone

\* "if qty:" testing only for None
HasQty_NotNone(qty) == qty # PyNone

\* "if qty:"
HasQty(qty) == qty # PyNone /\ qty # <<>>

\* closing_assets.py run as a script: the requests it sent, its exit code
closing_assets(env, answer, confirmation) ==
    IF ~env THEN [requests |-> <<>>, exit |-> 1]
    ELSE LET position == fetch_position(answer)
         IN  IF position.none \/ DOMAIN position.dict = {}
             THEN [requests |-> <<"GET">>, exit |-> 0]
             ELSE IF HasQty(get(position.dict, "qty")) /\ confirmed(confirmation)
             THEN [requests |-> <<"GET", "POST">>, exit |-> 0]
             ELSE [requests |-> <<"GET">>, exit |-> 0]

\* platform_test_liquidate.py run as a script
platform_test_liquidate(confirmation) ==
    IF confirmed(confirmation)
    THEN [requests |-> <<"DELETE">>, exit |-> 0]
    ELSE [requests |-> <<>>, exit |-> 0]

\* check_conversion_support(): it prints what it found and returns None
check_conversion_support(status) == PyNone

\* conversion_withdraw.py run as a script: step 1, then step 2
conversion_withdraw(status) ==
    LET support == check_conversion_support(status)
    IN  [requests |-> <<"OPTIONS", "POST">>, exit |-> 0]

LiquidationScripts == {"closing_assets", "platform_test_liquidate"}

\* one run of a script: the environment, the broker's answers, the input
ScriptInputs ==
    [fn : {"script"}, impl : LiquidationScripts, env : BOOLEAN,
     answer : FetchOutcomes, typed : Typed, done : {FALSE},
     result : {[requests |-> <<>>, exit |-> 0]}]
        \cup
    [fn : {"script"}, impl : {"conversion_withdraw"}, env : {TRUE},
     answer : {[status |-> c, body |-> [k \in {} |-> <<>>]] :
                    c \in {200, 404, 0}},
     typed : {<<"U">>}, done : {FALSE},
     result : {[requests |-> <<>>, exit |-> 0]}]

RunScript(impl, env, answer, typed) ==
    IF impl = "closing_assets" THEN closing_assets(env, answer, typed)
    ELSE IF impl = "platform_test_liquidate"
    THEN platform_test_liquidate(typed)
    ELSE conversion_withdraw(answer.status)

-----------------------------------------------------------------------------
(* questrade/5ques_trade.py and 4ques_trade.py: send_request *)

\* the status of the broker's answer to the n-th request of one call, and
\* the requests after which the token refresh fails
RequestInputs ==
    [fn : {"request"}, answers : [1..RecursionLimit -> {200, 401, 500}],
     refreshFails : SUBSET (1..RecursionLimit), done : {FALSE},
     result : {[outcome |-> "-", requests |-> 0, refreshes |-> 0]}]

RECURSIVE send_from(_, _, _, _)
\* the n-th nested call: on 401 refresh_access_token() and
\* "return send_request(endpoint, method, params, data)"
send_from(n, answers, refreshFails, refreshes) ==
    IF n > RecursionLimit
    THEN [outcome |-> "raised", requests |-> n - 1, refreshes |-> refreshes]
    ELSE IF answers[n] = 401
    THEN IF n \in refreshFails
         THEN [outcome |-> "raised", requests |-> n,
               refreshes |-> refreshes + 1]
         ELSE send_from(n + 1, answers, refreshFails, refreshes + 1)
    ELSE IF answers[n] = 200
    THEN [outcome |-> "returned", requests |-> n, refreshes |-> refreshes]
    ELSE \* response.raise_for_status()
         [outcome |-> "raised", requests |-> n, refreshes |-> refreshes]

\* send_request(endpoint, ...): how it ends, the requests it sent and the
\* token refreshes it asked for
send_request(answers, refreshFails) == send_from(1, answers, refreshFails, 0)

-----------------------------------------------------------------------------
(* The moving averages on their own *)

\* price histories of every length up to past the long window: n bars of
\* one level, then up to a short window of another
SmaInputs ==
    { Rep(p, n) \o Rep(q, m) :
        p \in PriceLevels, q \in PriceLevels,
        n \in 0..(LongWindow - ShortWindow + MaxExtraBars),
        m \in {0, 1, ShortWindow - 1, ShortWindow} }

\* quotes (1/10000 USD) an order is sized at: around MidQuote, and the
\* whole-dollar levels of the bars
Quotes ==
    ((MidQuote - 2)..(MidQuote + 2)) \cup {p * Scale : p \in PriceLevels}

\* the arguments of one evaluation of "round(allocation / price, 4)"
QtyInputs ==
    [fn : {"qty"}, allocation : {ALLOCATION, TARGET_ALLOCATION_2paper},
     price : Quotes, done : {FALSE}, result : {0}]

\* positions as evaluate_and_trade records them, qty and entry_price in
\* units of 1/10000
PositionValues ==
    {[qty |-> Round4(TARGET_ALLOCATION_2paper, p), entry_price |-> p * Scale] :
        p \in PriceLevels}

\* position mappings a state can hold, and a half unit of BCH/USD at 300
PositionMaps ==
    UNION {[S -> PositionValues] :
            S \in SUBSET {ASSETS_2paper[i] : i \in DOMAIN ASSETS_2paper}}
        \cup {[a \in {"BCH/USD"} |->
                    [qty |-> Scale \div 2, entry_price |-> 300 * Scale]]}

\* a state file cut short while it was written
Truncated(text) == SubSeq(text, 1, Len(text) - 1)

\* what the state file can hold when load_state() opens it
FileContents ==
    {Missing, Emptied}
        \cup {json_dump(m) : m \in PositionMaps}
        \cup {Truncated(json_dump(m)) : m \in PositionMaps}

\* load_state() on its own
LoadInputs ==
    [fn : {"load"}, impl : StateFileBots, content : FileContents,
     done : {FALSE}, result : {Loaded(EmptyDict)}]

\* two save_state() calls and a load_state(), starting without a file
RoundTripInputs ==
    [fn : {"roundtrip"}, impl : {"paper", "Lioneheart1"},
     first : PositionMaps, second : PositionMaps, stage : {0},
     content : {Missing}, failed : {FALSE}, result : {Loaded(EmptyDict)}]

\* the scripts that load credentials when the module is run
Scripts == {"1alpaca_bot", "2paper", "2lioneheart", "Lioneheart1",
            "Lioneheart3", "3ques_trade", "5ques_trade"}

\* module start-up: the environment holds the key (or access token) and the
\* secret (or refresh token) or not, and the broker SDK's client constructor,
\* a black box, rejects missing credentials or accepts them
StartupInputs ==
    [fn : {"startup"}, impl : Scripts, key : BOOLEAN, secret : BOOLEAN,
     sdk : {"rejects", "accepts"}, done : {FALSE}, result : {"-"}]

\* where the module-level code of a script ends up: in its polling function
\* ("main"), or with the process gone ("exit": exit(), "raised": an uncaught
\* exception)
Startup(impl, key, secret, sdk) ==
    LET present == key /\ secret
    IN  IF impl \in {"2paper", "2lioneheart"}
        THEN \* "if not API_KEY or not API_SECRET: ... exit(1)"
             IF present THEN "main" ELSE "exit"
        ELSE IF impl \in {"3ques_trade", "5ques_trade"}
        THEN \* "if not ...: raise ValueError(...)"
             IF present THEN "main" ELSE "raised"
        ELSE IF impl = "1alpaca_bot"
        THEN \* no test: TradingClient(api_key=API_KEY, secret_key=API_SECRET)
             IF ~present /\ sdk = "rejects" THEN "raised" ELSE "main"
        ELSE \* no test: "try: api = REST(...) except Exception: exit()"
             IF ~present /\ sdk = "rejects" THEN "exit" ELSE "main"

\* one call of rebalance_portfolio: whether get_positions answers, the
\* symbols held, the quote of every symbol, whether order requests succeed
RebalanceInputs ==
    [fn : {"rebalance"}, positionsOk : BOOLEAN,
     held : {{}, {"AAPL"}, {"MSFT"}},
     quote : QuoteMaps,
     postOk : BOOLEAN, done : {FALSE}, result : {NoProgress}]

InitCalc ==
    /\ Init
    /\ bot = "paper"
    /\ call \in [fn : {"sma"}, impl : {"paper", "lion"}, prices : SmaInputs,
                  window : {ShortWindow, LongWindow}, done : {FALSE},
                  result : {None}]
                \cup QtyInputs \cup LoadInputs \cup RoundTripInputs
                \cup StartupInputs \cup RebalanceInputs \cup ScriptInputs
                \cup RequestInputs

\* short_sma / long_sma is computed from the fetched prices
ComputeSma ==
    /\ call.fn = "sma"
    /\ ~call.done
    /\ call' = [call EXCEPT !.done = TRUE,
                            !.result = Sma(call.impl, call.prices, call.window)]
    /\ UNCHANGED <<bot, pc, total_profit, file, state, mainState, positions, cash, idx,
                   todo, broker, last, cycle, hist>>

\* "qty = round(allocation / price, 4)": allocation in USD, price in
\* 1/10000 USD, the quantity in units of 1/10000
ComputeQty ==
    /\ call.fn = "qty"
    /\ ~call.done
    /\ call' = [call EXCEPT !.done = TRUE,
                            !.result = Round4(call.allocation * Scale,
                                              call.price)]
    /\ UNCHANGED <<bot, pc, total_profit, file, state, mainState, positions, cash, idx,
                   todo, broker, last, cycle, hist>>

\* load_state() reads the state file
LoadStateCall ==
    /\ call.fn = "load"
    /\ ~call.done
    /\ call' = [call EXCEPT !.done = TRUE,
                            !.result = LoadState(call.impl, call.content)]
    /\ UNCHANGED <<bot, pc, total_profit, file, state, mainState, positions, cash, idx,
                   todo, broker, last, cycle, hist>>

\* save_state(state): of the first state, then of the second
SaveStateCall ==
    /\ call.fn = "roundtrip"
    /\ call.stage \in {0, 1}
    /\ \E w \in SaveState(call.content,
                           IF call.stage = 0 THEN call.first ELSE call.second) :
          call' = [call EXCEPT !.stage = @ + 1, !.content = w.content,
                               !.failed = @ \/ ~w.ok]
    /\ UNCHANGED <<bot, pc, total_profit, file, state, mainState, positions, cash, idx,
                   todo, broker, last, cycle, hist>>

\* load_state() after the two saves
LoadBack ==
    /\ call.fn = "roundtrip"
    /\ call.stage = 2
    /\ call' = [call EXCEPT !.stage = 3,
                            !.result = LoadState(call.impl, call.content)]
    /\ UNCHANGED <<bot, pc, total_profit, file, state, mainState, positions, cash, idx,
                   todo, broker, last, cycle, hist>>

\* the module-level code of a script runs
ModuleStartup ==
    /\ call.fn = "startup"
    /\ ~call.done
    /\ call' = [call EXCEPT !.done = TRUE,
                            !.result = Startup(call.impl, call.key,
                                               call.secret, call.sdk)]
    /\ UNCHANGED <<bot, pc, total_profit, file, state, mainState, positions, cash, idx,
                   todo, broker, last, cycle, hist>>

\* rebalance_portfolio(account_id) runs
RebalanceCall ==
    /\ call.fn = "rebalance"
    /\ ~call.done
    /\ call' = [call EXCEPT
                    !.done = TRUE,
                    !.result = rebalance_portfolio(call.positionsOk, call.held,
                                                   call.quote, call.postOk)]
    /\ UNCHANGED <<bot, pc, total_profit, file, state, mainState, positions, cash, idx,
                   todo, broker, last, cycle, hist>>

\* a one-shot script runs from start to end
ScriptRun ==
    /\ call.fn = "script"
    /\ ~call.done
    /\ call' = [call EXCEPT !.done = TRUE,
                            !.result = RunScript(call.impl, call.env,
                                                 call.answer, call.typed)]
    /\ UNCHANGED <<bot, pc, total_profit, file, state, mainState, positions, cash, idx,
                   todo, broker, last, cycle, hist>>

\* one call of send_request from outside
SendRequestCall ==
    /\ call.fn = "request"
    /\ ~call.done
    /\ call' = [call EXCEPT !.done = TRUE,
                            !.result = send_request(call.answers,
                                                    call.refreshFails)]
    /\ UNCHANGED <<bot, pc, total_profit, file, state, mainState, positions, cash, idx,
                   todo, broker, last, cycle, hist>>

NextCalc ==
    \/ SendRequestCall
    \/ ScriptRun
    \/ ModuleStartup
    \/ RebalanceCall
    \/ ComputeSma
    \/ ComputeQty
    \/ LoadStateCall
    \/ SaveStateCall
    \/ LoadBack

SpecCalc == InitCalc /\ [][NextCalc]_vars

-----------------------------------------------------------------------------
(* Properties *)

\* the tracked position set: the state file of 2paper and 2lioneheart, the
\* in-memory mapping of 1alpaca_bot
Tracked == IF bot = "alpaca" THEN DOMAIN positions ELSE DOMAIN file

\* the step just taken is a pass through the loop body of evaluate_and_trade
EvaluatedAsset == pc = "eval" /\ idx <= Len(ASSETS(bot)) /\ last'.op = "eval"

\* C1: in evaluate_and_trade, for an asset whose two averages are defined, a
\* buy is submitted exactly when short_sma > long_sma and the asset is not in
\* the position set, a sell exactly when short_sma < long_sma and it is, and
\* nothing else (not the cash balance) decides.
C1_DecisionRule ==
    (last.op = "eval" /\ last.rel \in {"gt", "lt", "eq"}) =>
        /\ last.order = "buy" <=> (last.rel = "gt" /\ ~last.held)
        /\ last.order = "sell" <=> (last.rel = "lt" /\ last.held)

\* C2: a symbol enters the tracked position set only when a buy order for it
\* has been accepted by the broker in the running cycle.
C2_TrackedOnlyAfterAcceptedBuy ==
    [][\A a \in Symbols :
          (a \notin Tracked /\ a \in Tracked') => a \in cycle'.bought]_vars

\* C3: within a cycle a symbol leaves the tracked position set only when a
\* sell order for it has been accepted by the broker in that cycle.
C3_UntrackedOnlyAfterAcceptedSell ==
    [][\A a \in Symbols :
          (/\ pc \in {"eval", "check"}
           /\ pc' \notin {"stopped", "crashed"}
           /\ a \in Tracked /\ a \notin Tracked') => a \in cycle'.sold]_vars

\* C4: when the loop is stopped by a manual interruption, a sell order is
\* submitted for every position tracked in the state file at that moment.
C4_InterruptSellsEveryTracked ==
    (pc = "stopped" /\ last.op = "close") => last.tracked \subseteq last.sells

\* C5: after the liquidation of a manual interruption the state file tracks
\* no symbol a sell was submitted for, and still tracks every symbol that was
\* tracked and had no sell submitted.
C5_FileAfterInterrupt ==
    (pc = "stopped" /\ last.op = "close") =>
        /\ DOMAIN file \cap last.sells = {}
        /\ (last.tracked \ last.sells) \subseteq DOMAIN file

\* C6: whenever evaluate_and_trade returns, the positions in the state file
\* equal the in-memory positions the cycle ended with (stated for the runs in
\* which no write of the file has failed).
C6_FileMirrorsMemory ==
    (last.op = "return" /\ ~hist.saveFailed) => file = state

\* C7: in runs with no crash and no failed save, no buy order is submitted
\* for an asset that is tracked in the state file.
C7_NoBuyOfTrackedAsset ==
    [][(/\ EvaluatedAsset
        /\ last'.order = "buy"
        /\ ~hist'.crashed /\ ~hist'.saveFailed)
       => last'.asset \notin DOMAIN file]_vars

\* C7, reachability: after a crash between submit_order and save_state, and
\* the restart, a buy is accepted for an asset the broker still holds from
\* the buy before the crash, while no save has failed.
C7_DuplicatedBuyAfterCrash ==
    /\ hist.crashed /\ ~hist.saveFailed
    /\ last.op = "eval" /\ last.order = "buy" /\ last.accepted
    /\ last.dup
    /\ pc = "eval"

\* C8: in check_take_profit_and_stop_loss, for a tracked position whose
\* current price is available, with gain = (price - entry) / entry * 100: the
\* sell is forced (place_order is called for a sell, which submits the order
\* unless its own price fetch fails) and the position removed exactly when
\* gain >= 10 or gain <= -5; otherwise the position is unchanged and no sell
\* is issued.
C8_TakeProfitStopLoss ==
    [][(pc = "check" /\ last'.op = "tp" /\ last'.price # NoPrice) =>
        LET symbol == Head(todo)
            entry == positions[symbol].entry_price
            gain100 == (last'.price - entry) * 100
            forced == \/ gain100 >= TAKE_PROFIT_PERCENT * entry
                      \/ gain100 <= (0 - STOP_LOSS_PERCENT) * entry
        IN  IF forced
            THEN /\ last'.order \in {"sell", "skipped"}
                 /\ symbol \notin DOMAIN positions'
                 /\ positions' = Pop(positions, symbol)
            ELSE /\ last'.order = "none"
                 /\ positions' = positions]_vars

\* C8, witness: a take-profit at exactly +10% has submitted a sell order.
C8_TakeProfitAtThreshold ==
    /\ last.op = "tp" /\ last.rel = "tp" /\ last.order = "sell"
    /\ (last.price - last.entry) * 100 = TAKE_PROFIT_PERCENT * last.entry
    /\ last.asset \notin DOMAIN positions

\* C9: when short_sma equals long_sma, or fewer than 50 prices are available,
\* no order is submitted for the asset, the position set in memory and in
\* the file is left as it was, and evaluation goes on with the next asset.
C9_HoldLeavesAllUnchanged ==
    [][(EvaluatedAsset /\ (last'.rel = "eq" \/ ~last'.full)) =>
        /\ last'.order = "none"
        /\ state' = state /\ file' = file /\ broker' = broker
        /\ pc' = "eval" /\ idx' = idx + 1]_vars

\* C9, witness: an asset with a position was evaluated on equal averages and
\* the position is still there.
C9_HoldOnEquality ==
    /\ last.op = "eval" /\ last.rel = "eq" /\ last.held
    /\ last.asset \in DOMAIN state /\ last.asset \in DOMAIN file
    /\ pc = "eval"

RECURSIVE SumDown(_, _, _)
\* s[hi] + s[hi - 1] + ... over k elements
SumDown(s, hi, k) == IF k = 0 THEN 0 ELSE s[hi] + SumDown(s, hi - 1, k - 1)

\* C10: the average over a window (10 or 50) is undefined for a history
\* shorter than the window, and otherwise the mean of its last window prices.
C10_SmaIsMeanOfLastWindow ==
    (call.fn = "sma" /\ call.done) =>
        LET n == Len(call.prices)
            w == call.window
        IN  IF n < w THEN call.result = None
            ELSE /\ call.result # None
                 /\ call.result.den > 0
                 /\ call.result.num * w
                      = SumDown(call.prices, n, w) * call.result.den

\* C10, witness: a long average of a history longer than the window whose
\* first and last prices differ.
C10_LongSmaComputed ==
    /\ call.fn = "sma" /\ call.done
    /\ call.window = LongWindow /\ Len(call.prices) > LongWindow
    /\ call.prices[1] # call.prices[Len(call.prices)]
    /\ call.result # None

-----------------------------------------------------------------------------
(* Order sizing *)

\* the configured dollar allocation per asset of a bot
Allocation(b) ==
    IF b = "paper" THEN TARGET_ALLOCATION_2paper
    ELSE IF b = "lion" THEN TARGET_ALLOCATION_2lioneheart
    ELSE ALLOCATION

\* C11: the quantity of every buy order is the bot's per-asset allocation
\* divided by the price the order is sized at, rounded to 4 decimal places.
C11_BuyQuantityIsRoundedAllocation ==
    (last.op \in {"eval", "new"} /\ last.order = "buy") =>
        last.qty.num = Round4(Allocation(bot), last.quote) * last.qty.den

\* C12 as stated: with allocation 20 and price 3.3333 the quantity
\* round(allocation / price, 4) is 6.0000.
C12_QuantityIsSix ==
    (call.fn = "qty" /\ call.done /\ call.allocation = 20
        /\ call.price = 33333) => call.result = 60000

\* C12, amended: with allocation 20 and price 3.3333 the quantity
\* round(allocation / price, 4) is 6.0001 (20 / 3.3333 = 6.00006...).
C12_QuantityIsSixAndOneTenThousandth ==
    (call.fn = "qty" /\ call.done /\ call.allocation = 20
        /\ call.price = 33333) => call.result = 60001

\* C12, witness: the quantity for allocation 20 and price 3.3333 has been
\* computed, and it is more than 6.
C12_ExampleComputed ==
    /\ call.fn = "qty" /\ call.done
    /\ call.allocation = 20 /\ call.price = 33333
    /\ call.result > 6 * Scale

-----------------------------------------------------------------------------
(* The state file *)

\* C13: load_state returns an empty position set and does not raise when the
\* state file is missing and when it is not valid JSON.
C13_LoadStateNeverRaises ==
    (call.fn = "load" /\ call.done
        /\ (call.content = Missing \/ ~IsJson(call.content))) =>
        call.result = Loaded(EmptyDict)

\* C14: after save_state of one position mapping and then of another, with
\* neither write failing, load_state returns the second mapping: the same
\* symbols with the same values, and nothing of the first.
C14_RoundTrip ==
    (call.fn = "roundtrip" /\ call.stage = 3 /\ ~call.failed) =>
        call.result = Loaded(call.second)

\* C14, witness: a mapping of one symbol was saved over a mapping of three
\* and read back as it was saved.
C14_ShorterStateReadBack ==
    /\ call.fn = "roundtrip" /\ call.stage = 3 /\ ~call.failed
    /\ Cardinality(DOMAIN call.first) = 3
    /\ Cardinality(DOMAIN call.second) = 1
    /\ call.result.positions = call.second
    /\ \E a \in DOMAIN call.second : call.second[a].qty = 66667

-----------------------------------------------------------------------------
(* Start-up *)

\* C19: in every bot, if the API key or the secret (or a required token) is
\* missing at start-up, the process ends before the polling loop is entered
\* and before any broker call.
C19_MissingCredentialsAreFatal ==
    (call.fn = "startup" /\ call.done /\ ~(call.key /\ call.secret)) =>
        call.result # "main"

-----------------------------------------------------------------------------
(* Failures of single broker calls *)

\* C18: when fetching the price of one asset fails, only that asset is
\* skipped: every configured asset is still gone through in the same run of
\* the evaluate / rebalance step (here rebalance_portfolio of 5ques_trade,
\* with the position list fetched and every order request answered).
C18_FailedFetchSkipsOnlyThatAsset ==
    (call.fn = "rebalance" /\ call.done /\ call.positionsOk /\ call.postOk) =>
        /\ ~call.result.raised
        /\ call.result.evaluated = DOMAIN TRADE_LIMITS

-----------------------------------------------------------------------------
(* The polling loops *)

\* the control states inside "while True"
InLoop(p) == p \in {"loop", "eval", "check", "buy", "sleep"}

\* the last step was a cycle body that raised into the handler of the loop
BodyRaised == last.raised /\ last.op # "start"

\* C15: when the body of a polling loop raises an exception other than a
\* manual interruption, the loop catches it and sleeps the interval it
\* sleeps after a successful cycle before it starts the next cycle.
C15_CaughtExceptionSleepsTheInterval ==
    BodyRaised => (pc = "sleep" /\ last.slept = Interval(bot))

\* C16: a polling loop, once entered, is left only by a manual interruption
\* or, in 5ques_trade.run_bot, with total_profit at PROFIT_TARGET or more;
\* neither an exception in the body nor a broker failure ends it.  (A
\* process killed from outside is no step of the loop.)
C16_LoopLeftOnlyByInterruptOrTarget ==
    [][(InLoop(pc) /\ ~InLoop(pc') /\ pc' # "crashed") =>
          \/ last'.op \in {"close", "break"}
          \/ /\ bot = "ques5"
             /\ last'.op = "target"
             /\ total_profit' >= PROFIT_TARGET]_vars

\* an exception of the body was caught and the bot is still in its loop
C16_ExceptionSurvived == BodyRaised /\ InLoop(pc)

\* C17: in 5ques_trade.run_bot every trading-hours cycle adds the portfolio
\* profit to total_profit, then runs manage_positions, then
\* rebalance_portfolio (and ends the loop once the target is reached).
C17_TradingCycleRunsItsSteps ==
    (bot = "ques5" /\ last.op = "cycle" /\ last.open) =>
        last.ran = <<"calculate_portfolio_profit", "manage_positions",
                     "rebalance_portfolio">>

\* a cycle in which the market-hours gate said "closed"
GateClosedCycle ==
    \/ bot = "lion" /\ last.op = "closed"
    \/ bot = "ques5" /\ last.op = "cycle" /\ ~last.open

\* a cycle in which the gate said "open" is over
GateOpenCycleOver ==
    \/ bot = "lion" /\ last.open /\ pc = "sleep"
    \/ bot = "ques5" /\ last.op = "cycle" /\ last.open

\* every configured asset was evaluated in the cycle that just ended
AllEvaluated ==
    IF bot = "ques5" THEN last.evaluated = DOMAIN TRADE_LIMITS
    ELSE idx = Len(ASSETS(bot)) + 1

\* C20: with a market-hours gate, a cycle in which the gate reports the
\* market closed submits no order, and a cycle in which it reports the
\* market open evaluates every configured asset.
C20_GateClosedNoOrderGateOpenAllAssets ==
    [][/\ GateClosedCycle' => broker' = broker
       /\ GateOpenCycleOver' => AllEvaluated']_vars

-----------------------------------------------------------------------------
(* Positions and orders *)

\* C21: in 1alpaca_bot, 2paper and 2lioneheart every symbol of the tracked
\* position set has a quantity greater than zero, whatever positive price
\* the broker returned.
C21_TrackedQuantityIsPositive ==
    /\ \A s \in DOMAIN positions : positions[s].qty.num > 0
    /\ \A s \in DOMAIN state : state[s].qty.num > 0

\* C22: in 2lioneheart the dollar value (quantity times last price) of every
\* buy order submitted is at most TARGET_ALLOCATION (300 USD).
C22_BuyValueWithinTargetAllocation ==
    (bot = "lion" /\ last.op = "eval" /\ last.order = "buy") =>
        last.qty.num * last.quote
            <= TARGET_ALLOCATION_2lioneheart * Scale * last.qty.den

-----------------------------------------------------------------------------
(* The one-shot scripts *)

\* a sell order or a close request is among the requests of the run
SellSent == \E i \in DOMAIN call.result.requests :
                call.result.requests[i] \in {"POST", "DELETE"}

\* the text is CONFIRM in any case, with nothing but blanks around it
TypedConfirm(t) ==
    \E i \in 1..Len(t) :
        /\ i + Len(CONFIRM) - 1 <= Len(t)
        /\ \A k \in 1..Len(t) :
              IF k < i \/ k > i + Len(CONFIRM) - 1
              THEN t[k] \in Whitespace
              ELSE \/ t[k] = CONFIRM[k - i + 1]
                   \/ \E j \in DOMAIN LowerCase :
                        t[k] = LowerCase[j] /\ UpperCase[j] = CONFIRM[k - i + 1]

\* the broker answered with a position that has a non-empty qty
PositionWithQty ==
    /\ call.answer.status = 200
    /\ "qty" \in DOMAIN call.answer.body
    /\ Len(call.answer.body["qty"]) > 0

\* C23: closing_assets.py and platform_test_liquidate.py send a sell or close
\* request only after the user typed CONFIRM (trimmed, in any case), and
\* closing_assets.py only for a fetched position with a non-empty qty.
C23_SellOnlyAfterConfirm ==
    (call.fn = "script" /\ call.done /\ call.impl \in LiquidationScripts
        /\ SellSent) =>
        /\ TypedConfirm(call.typed)
        /\ call.impl = "closing_assets" => (call.env /\ PositionWithQty)

\* C23, witness: closing_assets.py has sent its sell order after an answer
\* that is CONFIRM only once trimmed and put in upper case
C23_SoldAfterLooseConfirm ==
    /\ call.fn = "script" /\ call.done /\ call.impl = "closing_assets"
    /\ SellSent
    /\ call.typed # CONFIRM

\* C24: conversion_withdraw.py calls withdraw_crypto only when
\* check_conversion_support found that conversion is not supported.
C24_WithdrawOnlyIfConversionUnsupported ==
    (call.fn = "script" /\ call.done /\ call.impl = "conversion_withdraw"
        /\ SellSent) => call.answer.status # 200

-----------------------------------------------------------------------------
(* Orders of one cycle *)

\* C25: within one polling cycle at most one order is submitted for any one
\* asset: no asset is sold and then bought again in the same cycle.
C25_OneOrderPerAssetPerCycle == cycle.sold \cap cycle.bought = {}

\* C26: the value of the buy orders of one cycle of 2paper and 2lioneheart
\* never exceeds the cash balance read at the start of the cycle, so the
\* locally tracked cash never becomes negative.  (2paper deducts every buy
\* from its cash; every buy of 2lioneheart is worth the whole balance.)
C26_BuysCoveredByCash ==
    (bot \in {"paper", "lion"} /\ pc = "eval") =>
        IF bot = "paper" THEN cash >= 0
        ELSE Cardinality(cycle.bought) * cash <= cash

\* C27: in one run of Lioneheart1 or Lioneheart3, allocate_funds submits at
\* most one buy order per symbol: once a buy of a symbol was accepted, no
\* later pass buys it again, also when the state file cannot be written and
\* when the asset list names the symbol twice.
C27_OneBuyPerSymbol ==
    (last.op = "alloc" /\ last.order = "buy") => ~last.dup

-----------------------------------------------------------------------------
(* Requests to Questrade *)

\* C28: a call of send_request ends, returning or raising, after at most
\* one token refresh and one retry, whatever the broker answers.
C28_OneRefreshOneRetry ==
    (call.fn = "request" /\ call.done) =>
        /\ call.result.outcome \in {"returned", "raised"}
        /\ call.result.refreshes <= 1
        /\ call.result.requests <= 2

\* C29: in 5ques_trade rebalance_portfolio buys no symbol at a price at
\* which manage_positions would close a position in it (price <= low or
\* price >= high), the prices low and high themselves included.
C29_BuyAndCloseRulesDisjoint ==
    (call.fn = "rebalance" /\ call.done) =>
        \A sym \in call.result.bought :
            sym \notin manage_positions(TRUE, {sym}, call.quote, TRUE).closed

-----------------------------------------------------------------------------
(* 1alpaca_bot without a price *)

\* the step just taken was about one asset, and a call of get_crypto_price
\* in it (the loop's own or the one inside place_order) returned no price
NoPriceStep ==
    /\ last'.op \in {"tp", "new"}
    /\ last'.rel = "noprice" \/ last'.order = "skipped"

\* C30: in 1alpaca_bot, when get_crypto_price returns no price for a symbol,
\* no order is submitted for it and its place in the tracked position set is
\* unchanged: a tracked position keeps its entry price and quantity, an
\* untracked asset stays untracked.
C30_NoPriceNoChange ==
    [][NoPriceStep =>
          LET asset == last'.asset
          IN  /\ last'.order \notin {"buy", "sell"}
              /\ (asset \in DOMAIN positions') = (asset \in DOMAIN positions)
              /\ asset \in DOMAIN positions =>
                    positions'[asset] = positions[asset]]_vars


====
